---- MODULE Spec2Model ----
(***************************************************************************)
(* Lifecycle of matrix.Bot (package matrix, go-matrix-bot):                *)
(* Run's bootstrap and blocking wait, the sync goroutine it spawns, and    *)
(* Stop, interleaved at the granularity of the statements that read or     *)
(* write the Bot's fields.                                                 *)
(*                                                                         *)
(* Two flows use one Bot, as in the README (go bot.Run(ctx);               *)
(* <-ctx.Done(); bot.Stop()): one calls Run, one call at a time, the other *)
(* calls Stop, one call at a time and at any moment of a Run call.  The    *)
(* n-th Run call creates client n, key-store handle n, sync context n and  *)
(* sync goroutine n, so one index set names them all.                      *)
(*                                                                         *)
(* On top of the lifecycle: NewBot and Config.Validate, OnMessage, the two *)
(* event routes Run registers (message dispatch over b.handlers, auto-join *)
(* on invite) running on the sync goroutine, and SendText / SendHTML /     *)
(* SendReply.  Spec and LiveSpec are the lifecycle alone, for a Bot built  *)
(* from one valid Config; ConfigSpec is NewBot over a set of Configs;      *)
(* DispatchSpec follows one session (the first Run call and the first Stop *)
(* call) with events arriving, SendSpec the first Run call with sends      *)
(* called, StreamSpec one session whose ctx may also end by a deadline (in  *)
(* the other specifications the caller cancels it; a deadline differs from *)
(* that only in the error the sync call returns).  BotSpec has every       *)
(* operation at once, NewBot included, on a few inputs of each kind;       *)
(* EchoSpec is the README's echo bot with its own echoes coming back on    *)
(* the stream.                                                             *)
(***************************************************************************)
EXTENDS Naturals, FiniteSets, Sequences

MaxRuns == 2
MaxStops == 2
\* b.handlers holds at most MaxHandlers handlers
MaxHandlers == 2
\* SendReply is called with at most MaxMentions user ids
MaxMentions == 2
\* the server sends back on the stream the echoes of at most MaxEchoes
\* generations
MaxEchoes == 2

Runs == 1..MaxRuns
Stops == 1..MaxStops

\* nil of a Go pointer / func field
NIL == 0

\* the step of the bootstrap the environment lets fail in one Run call
FailPoints == {"none", "client", "crypto_helper", "crypto_init"}

\* fmt.Errorf("matrix: failed to ...: %w", err) of the three phases
ErrCreateClient == "matrix: failed to create client"
ErrCreateCryptoHelper == "matrix: failed to create crypto helper"
ErrInitCrypto == "matrix: failed to init crypto"
BootstrapErrors == {ErrCreateClient, ErrCreateCryptoHelper, ErrInitCrypto}

\* what Stop returns: nothing yet, nil, or what b.crypto.Close() returned for
\* handle h (nil or the store's error)
NotReturned == <<"none", NIL>>
NilError == <<"nil", NIL>>
CloseResult(h) == <<"Close", h>>

\* the two routes Run registers on the client's syncer
AllRoutes == {"message", "member"}

----------------------------------------------------------------------------
\* Config and NewBot

Homeservers == {"", "https://matrix.org", "http://localhost:8008"}
Usernames == {"", "bot"}
Passwords == {"", "secret"}
Databases == {"", "matrix-bot.db", "bot.db"}

\* type Config struct
Configs ==
    [Homeserver : Homeservers, Username : Usernames, Password : Passwords,
     Database : Databases, Debug : BOOLEAN]

ZeroConfig ==
    [Homeserver |-> "", Username |-> "", Password |-> "", Database |-> "",
     Debug |-> FALSE]

\* a Config that passes Validate, Database left unset
SampleConfig ==
    [Homeserver |-> "https://matrix.org", Username |-> "bot", Password |-> "secret",
     Database |-> "", Debug |-> FALSE]

ErrHomeserver == "matrix: homeserver URL is required"
ErrUsername == "matrix: username is required"
ErrPassword == "matrix: password is required"
ConfigErrors == {ErrHomeserver, ErrUsername, ErrPassword}

\* Validate without its last check
Validate_NoPasswordCheck(c) ==
    IF c.Homeserver = "" THEN ErrHomeserver
    ELSE IF c.Username = "" THEN ErrUsername
    ELSE "nil"

\* func (c *Config) Validate() error
Validate(c) ==
    IF c.Homeserver = "" THEN ErrHomeserver
    ELSE IF c.Username = "" THEN ErrUsername
    ELSE IF c.Password = "" THEN ErrPassword
    ELSE "nil"

\* NewBot sets the Database whether or not the caller gave one
WithDefaults_AlwaysDefault(c) == [c EXCEPT !.Database = "matrix-bot.db"]

\* if config.Database == "" { config.Database = "matrix-bot.db" }
WithDefaults(c) ==
    IF c.Database = "" THEN [c EXCEPT !.Database = "matrix-bot.db"] ELSE c

----------------------------------------------------------------------------
\* Events, handlers and message contents

Rooms == {"!r1", "!r2"}

\* b.client.UserID of the logged-in client, and another user
BotUser == "@bot:matrix.org"
Users == {BotUser, "@alice:matrix.org"}

Bodies == {"hi", "yo"}
Memberships == {"invite", "join", "leave", "ban"}

\* the events the syncer hands to the two routes: m.room.message events (four
\* of them: every pair of values of two of the fields room, sender and body
\* occurs in one) and m.room.member state events (sent by another user, about
\* the bot or another user)
MessageEvents ==
    {e \in [type : {"message"}, room : Rooms, sender : Users, body : Bodies,
            stateKey : {""}, membership : {""}] :
        (e.body = "hi") <=> ((e.room = "!r1") <=> (e.sender = BotUser))}
MemberEvents ==
    [type : {"member"}, room : Rooms, sender : Users \ {BotUser}, body : {""},
     stateKey : Users, membership : Memberships]
Events == MessageEvents \cup MemberEvents
NoEvent ==
    [type |-> "none", room |-> "", sender |-> "", body |-> "", stateKey |-> "",
     membership |-> ""]

\* what a registered MessageHandler does when invoked: return, reply with
\* SendText(room, "Echo: " + body) as the README's echo bot does, or panic
HandlerKinds == {"return", "echo", "panic"}

RECURSIVE SeqsUpTo(_, _)
\* the sequences over S of length at most k
SeqsUpTo(S, k) ==
    IF k = 0 THEN {<<>>}
    ELSE LET shorter == SeqsUpTo(S, k - 1)
         IN  shorter \cup {Append(q, x) : q \in shorter, x \in S}

HandlerLists == SeqsUpTo(HandlerKinds, MaxHandlers)
MentionLists == SeqsUpTo(Users, MaxMentions)

Texts == {"", "hi"}
Htmls == {"", "<b>hi</b>"}

\* content.Mentions left nil
NoMentions == [set |-> FALSE, UserIDs |-> <<>>, Room |-> FALSE]

\* the MessageEventContent client.SendText builds
TextContent(text) ==
    [MsgType |-> "m.text", Body |-> text, Format |-> "", FormattedBody |-> "",
     Mentions |-> NoMentions]

\* the MessageEventContent SendHTML builds
HTMLContent(text, html) ==
    [MsgType |-> "m.text", Body |-> text, Format |-> "org.matrix.custom.html",
     FormattedBody |-> html, Mentions |-> NoMentions]

\* SendReply mentions the users without the room-wide flag
ReplyContent_NoRoomFlag(text, html, ids) ==
    [HTMLContent(text, html) EXCEPT !.Mentions =
        IF Len(ids) > 0
        THEN [set |-> TRUE, UserIDs |-> ids, Room |-> FALSE]
        ELSE NoMentions]

\* SendReply sets the mentions whatever the number of ids
ReplyContent_AlwaysMentions(text, html, ids) ==
    [HTMLContent(text, html) EXCEPT !.Mentions =
        [set |-> TRUE, UserIDs |-> ids, Room |-> TRUE]]

\* the MessageEventContent SendReply builds
ReplyContent(text, html, ids) ==
    [HTMLContent(text, html) EXCEPT !.Mentions =
        IF Len(ids) > 0
        THEN [set |-> TRUE, UserIDs |-> ids, Room |-> TRUE]
        ELSE NoMentions]

SendOps == {"SendText", "SendHTML", "SendReply"}

\* the content the send operation op hands to the client
SendContent(op, text, html, ids) ==
    CASE op = "SendText" -> TextContent(text)
      [] op = "SendHTML" -> HTMLContent(text, html)
      [] op = "SendReply" -> ReplyContent(text, html, ids)

\* what the client's send returns: nil or an error
Outcomes == {"nil", "error"}

\* a send retries once when the client's send failed
SendAttempts_RetryOnError(c, room, content, out) ==
    IF out = "error"
    THEN <<[client |-> c, room |-> room, content |-> content, outcome |-> out],
           [client |-> c, room |-> room, content |-> content, outcome |-> "nil"]>>
    ELSE <<[client |-> c, room |-> room, content |-> content, outcome |-> out]>>

\* the calls a send makes on client c when the client's send returns out:
\* one b.client.SendText / b.client.SendMessageEvent
SendAttempts(c, room, content, out) ==
    <<[client |-> c, room |-> room, content |-> content, outcome |-> out]>>

\* what a send returns after the calls in attempts: return err
SendReturns(attempts) == attempts[Len(attempts)].outcome

\* the route joins whoever is invited, not only the bot
ShouldJoin_AnyInvite(userID, evt) ==
    evt.membership = "invite"

\* evt.GetStateKey() == b.client.UserID.String() &&
\*     evt.Content.AsMember().Membership == event.MembershipInvite
ShouldJoin(userID, evt) ==
    evt.stateKey = userID /\ evt.membership = "invite"

\* the echo handler replies with the body alone
EchoText_NoPrefix(body) == body

\* "Echo: " + msg.Body of the README's echo handler
EchoText(body) == "Echo: " \o body

\* the m.room.message event the stream carries when the echo handler has
\* answered the message event e: the bot's own message, in the room of e, with
\* the echo of e's body as its body
EchoOf(e) == [e EXCEPT !.sender = BotUser, !.body = EchoText(e.body)]

RECURSIVE EchoesUpTo(_)
\* the messages of other users, and their echoes of up to k generations
EchoesUpTo(k) ==
    IF k = 0 THEN {e \in MessageEvents : e.sender # BotUser}
    ELSE EchoesUpTo(k - 1) \cup {EchoOf(e) : e \in EchoesUpTo(k - 1)}

\* the echoes among them
EchoEvents == {e \in EchoesUpTo(MaxEchoes) : e.sender = BotUser}

\* no event was dispatched yet
NoDispatch ==
    [state |-> "none", task |-> NIL, evt |-> NoEvent, hs |-> <<>>, calls |-> <<>>,
     joins |-> <<>>, sends |-> <<>>, live |-> FALSE, cut |-> FALSE]

\* no send was called yet
NoSend ==
    [op |-> "none", room |-> "", text |-> "", html |-> "", ids |-> <<>>,
     session |-> "none", attempts |-> <<>>, result |-> "none"]

VARIABLES
    \* fields of Bot
    client,         \* b.client: NIL or the client of Run call n
    crypto,         \* b.crypto: NIL or key-store handle n
    cancelSync,     \* b.cancelSync: NIL or the cancel func of sync context n
    syncWait,       \* b.syncWait: the WaitGroup counter
    \* objects the Bot points to
    routes,         \* routes[n]: event routes registered on client n's syncer
    clientCrypto,   \* clientCrypto[n]: client n's Crypto field
    store,          \* store[n]: key-store handle n is "none", "open" or "closed"
    closeCount,     \* closeCount[n]: number of Close calls on handle n
    \* contexts
    ctxDone,        \* ctxDone[n]: the ctx passed to Run call n is cancelled
    cancelled,      \* cancelled[n]: cancel func n has been called
    deadline,       \* deadline[n]: the ctx passed to Run call n ended by its deadline
    \* Run calls
    runPc,          \* runPc[n]: position of Run call n
    runFail,        \* runFail[n]: the bootstrap step that fails in Run call n
    runResult,      \* runResult[n]: "none" until Run call n returns, then its error
    \* sync goroutines
    task,           \* task[n]: "none", "running" or "exited"
    taskErr,        \* taskErr[n]: what SyncWithContext returned
    syncErrLog,     \* the goroutines that logged "Sync error"
    \* Stop calls
    stopPc,         \* stopPc[s]: position of Stop call s
    stopResult,     \* stopResult[s]: NotReturned until Stop call s returns, then its error
    quiet,          \* "stopping": a Stop call was made while no Run call was in its
                    \* bootstrap, and no statement of Run has written the Bot since;
                    \* "stopped": that Stop call has returned; "no" otherwise
    \* NewBot
    newBotArg,      \* the Config passed to NewBot
    newBotErr,      \* "none" until NewBot returns, then its error ("nil" for none)
    constructed,    \* NewBot returned a Bot
    config,         \* b.config (the zero Config while there is no Bot)
    \* dispatch and sends
    handlers,       \* b.handlers
    registeredLate, \* OnMessage was called after a sync goroutine was started
    disp,           \* the dispatch of the event the syncer delivered last: its
                    \* state, goroutine, event, the handlers ranged over, the
                    \* handler calls, join requests and sends made so far, whether
                    \* the sync context was live when it began (live) and was
                    \* cancelled while it was in progress (cut)
    lastSend,       \* the last send call made from outside a handler
    crashed         \* an unrecovered panic ended the process

botVars == <<client, crypto, cancelSync, syncWait>>
objVars == <<routes, clientCrypto, store, closeCount>>
ctxVars == <<ctxDone, cancelled, deadline>>
runVars == <<runPc, runFail, runResult>>
taskVars == <<task, taskErr, syncErrLog>>
stopVars == <<stopPc, stopResult>>
newVars == <<newBotArg, newBotErr, constructed, config>>
appVars == <<handlers, registeredLate, disp, lastSend, crashed>>
lifeVars == <<botVars, objVars, ctxVars, runVars, taskVars, stopVars, quiet>>
vars == <<botVars, objVars, ctxVars, runVars, taskVars, stopVars, quiet, newVars, appVars>>

RunPcs == {"idle", "routes", "crypto", "init", "assign", "ctx", "add", "go",
           "blocked", "done"}

TypeOK ==
    /\ client \in {NIL} \cup Runs
    /\ crypto \in {NIL} \cup Runs
    /\ cancelSync \in {NIL} \cup Runs
    /\ syncWait \in 0..MaxRuns
    /\ routes \in [Runs -> SUBSET AllRoutes]
    /\ clientCrypto \in [Runs -> {NIL} \cup Runs]
    /\ store \in [Runs -> {"none", "open", "closed"}]
    /\ closeCount \in [Runs -> 0..MaxStops]
    /\ ctxDone \in [Runs -> BOOLEAN]
    /\ cancelled \in [Runs -> BOOLEAN]
    /\ deadline \in [Runs -> BOOLEAN]
    /\ runPc \in [Runs -> RunPcs]
    /\ runFail \in [Runs -> FailPoints]
    /\ runResult \in [Runs -> {"none", "nil"} \cup BootstrapErrors]
    /\ task \in [Runs -> {"none", "running", "exited"}]
    /\ taskErr \in [Runs -> {"none", "canceled", "deadline", "error", "panic"}]
    /\ syncErrLog \subseteq Runs
    /\ stopPc \in [Stops -> {"idle", "wait", "close", "done"}]
    /\ stopResult \in [Stops -> {NotReturned, NilError} \cup {CloseResult(h) : h \in Runs}]
    /\ quiet \in {"no", "stopping", "stopped"}
    /\ newBotArg \in Configs
    /\ newBotErr \in {"none", "nil"} \cup ConfigErrors
    /\ constructed \in BOOLEAN
    /\ config \in Configs \cup {ZeroConfig, WithDefaults(SampleConfig)}
    /\ handlers \in HandlerLists
    /\ registeredLate \in BOOLEAN
    /\ disp.state \in {"none", "running", "done", "panicked"}
    /\ disp.task \in {NIL} \cup Runs
    /\ disp.evt \in Events \cup EchoEvents \cup {NoEvent}
    /\ disp.hs \in HandlerLists
    /\ Len(disp.calls) <= Len(disp.hs)
    /\ Len(disp.joins) <= 1
    /\ Len(disp.sends) <= Len(disp.calls)
    /\ disp.live \in BOOLEAN
    /\ disp.cut \in BOOLEAN
    /\ lastSend.op \in {"none"} \cup SendOps
    /\ lastSend.session \in {"none", "never", "failed", "bootstrapping", "ready"}
    /\ lastSend.result \in {"none", "panic"} \cup Outcomes
    /\ crashed \in BOOLEAN

\* every field of the Bot but config is zero, and nothing was dispatched or sent
ZeroBot ==
    /\ client = NIL
    /\ crypto = NIL
    /\ cancelSync = NIL
    /\ syncWait = 0
    /\ routes = [n \in Runs |-> {}]
    /\ clientCrypto = [n \in Runs |-> NIL]
    /\ store = [n \in Runs |-> "none"]
    /\ closeCount = [n \in Runs |-> 0]
    /\ ctxDone = [n \in Runs |-> FALSE]
    /\ cancelled = [n \in Runs |-> FALSE]
    /\ deadline = [n \in Runs |-> FALSE]
    /\ runPc = [n \in Runs |-> "idle"]
    /\ runFail = [n \in Runs |-> "none"]
    /\ runResult = [n \in Runs |-> "none"]
    /\ task = [n \in Runs |-> "none"]
    /\ taskErr = [n \in Runs |-> "none"]
    /\ syncErrLog = {}
    /\ stopPc = [s \in Stops |-> "idle"]
    /\ stopResult = [s \in Stops |-> NotReturned]
    /\ quiet = "no"
    /\ handlers = <<>>
    /\ registeredLate = FALSE
    /\ disp = NoDispatch
    /\ lastSend = NoSend
    /\ crashed = FALSE

\* the Bot NewBot returns for a valid Config: every field but config is zero
Init ==
    /\ ZeroBot
    /\ newBotArg = SampleConfig
    /\ newBotErr = "nil"
    /\ constructed = TRUE
    /\ config = WithDefaults(SampleConfig)

----------------------------------------------------------------------------
\* Contexts

\* syncCtx of Run call n is done: context.WithCancel(ctx) is done when its
\* parent is done or its cancel func was called
SyncCtxDone_Detached(n) == cancelled[n]

SyncCtxDone(n) == ctxDone[n] \/ cancelled[n]

\* Run is called from one flow: call n is made once call n - 1 has returned
PrevRunReturned(n) == IF n = 1 THEN TRUE ELSE runPc[n - 1] = "done"

\* the caller cancels (or the signal handler fires on) the ctx it passes to
\* Run call n, before the call or while it is in progress
CancelCtx(n) ==
    /\ runPc[n] # "done"
    /\ PrevRunReturned(n)
    /\ ~ctxDone[n]
    /\ ctxDone' = [ctxDone EXCEPT ![n] = TRUE]
    /\ UNCHANGED <<botVars, objVars, cancelled, deadline, runVars, taskVars, stopVars,
                   quiet>>
    /\ UNCHANGED <<newVars, appVars>>

\* the deadline of the ctx passed to Run call n (context.WithTimeout) passes,
\* before the call or while it is in progress
CtxTimesOut(n) ==
    /\ runPc[n] # "done"
    /\ PrevRunReturned(n)
    /\ ~ctxDone[n]
    /\ ctxDone' = [ctxDone EXCEPT ![n] = TRUE]
    /\ deadline' = [deadline EXCEPT ![n] = TRUE]
    /\ UNCHANGED <<botVars, objVars, cancelled, runVars, taskVars, stopVars, quiet>>
    /\ UNCHANGED <<newVars, appVars>>

----------------------------------------------------------------------------
\* Bot.Run

\* Run returns the error e
RunFails(n, e) ==
    /\ runPc' = [runPc EXCEPT ![n] = "done"]
    /\ runResult' = [runResult EXCEPT ![n] = e]

\* Run goes on to the statement at pc
RunGoes(n, pc) ==
    /\ runPc' = [runPc EXCEPT ![n] = pc]
    /\ UNCHANGED runResult

\* a statement of Run wrote the Bot
RunStep == quiet' = "no"

\* mautrix.NewClient; b.client = client
RunNewClient(n) ==
    /\ runPc[n] = "idle"
    /\ PrevRunReturned(n)
    /\ \E f \in FailPoints :
        /\ runFail' = [runFail EXCEPT ![n] = f]
        /\ IF f = "client"
           THEN RunFails(n, ErrCreateClient) /\ UNCHANGED client
           ELSE RunGoes(n, "routes") /\ client' = n
    /\ RunStep
    /\ UNCHANGED <<crypto, cancelSync, syncWait, objVars, ctxVars, taskVars, stopVars>>
    /\ UNCHANGED <<newVars, appVars>>

\* Run registers the message route alone
RunRegisterRoutes_MessageOnly(n) ==
    /\ runPc[n] = "routes"
    /\ routes' = [routes EXCEPT ![client] = {"message"}]
    /\ RunGoes(n, "crypto")
    /\ RunStep
    /\ UNCHANGED <<botVars, clientCrypto, store, closeCount, ctxVars, runFail,
                   taskVars, stopVars>>
    /\ UNCHANGED <<newVars, appVars>>

\* logger set-up; syncer.OnEventType(event.EventMessage, ...) and
\* syncer.OnEventType(event.StateMember, ...) on b.client's syncer
RunRegisterRoutes(n) ==
    /\ runPc[n] = "routes"
    /\ routes' = [routes EXCEPT ![client] = AllRoutes]
    /\ RunGoes(n, "crypto")
    /\ RunStep
    /\ UNCHANGED <<botVars, clientCrypto, store, closeCount, ctxVars, runFail,
                   taskVars, stopVars>>
    /\ UNCHANGED <<newVars, appVars>>

\* Run goes on to the init although creating the crypto helper failed
RunNewCryptoHelper_ErrorDropped(n) ==
    /\ runPc[n] = "crypto"
    /\ IF runFail[n] = "crypto_helper"
       THEN RunGoes(n, "init") /\ UNCHANGED store
       ELSE RunGoes(n, "init") /\ store' = [store EXCEPT ![n] = "open"]
    /\ RunStep
    /\ UNCHANGED <<botVars, routes, clientCrypto, closeCount, ctxVars, runFail,
                   taskVars, stopVars>>
    /\ UNCHANGED <<newVars, appVars>>

\* cryptohelper.NewCryptoHelper(b.client, ..., b.config.Database): opens the
\* key-store, held in the local cryptoHelper
RunNewCryptoHelper(n) ==
    /\ runPc[n] = "crypto"
    /\ IF runFail[n] = "crypto_helper"
       THEN RunFails(n, ErrCreateCryptoHelper) /\ UNCHANGED store
       ELSE RunGoes(n, "init") /\ store' = [store EXCEPT ![n] = "open"]
    /\ RunStep
    /\ UNCHANGED <<botVars, routes, clientCrypto, closeCount, ctxVars, runFail,
                   taskVars, stopVars>>
    /\ UNCHANGED <<newVars, appVars>>

\* cryptoHelper.Init(ctx) succeeds and Run goes on, although it failed
RunInitCrypto_ErrorDropped(n) ==
    /\ runPc[n] = "init"
    /\ RunGoes(n, "assign")
    /\ RunStep
    /\ UNCHANGED <<botVars, objVars, ctxVars, runFail, taskVars, stopVars>>
    /\ UNCHANGED <<newVars, appVars>>

\* cryptoHelper.LoginAs = ...; cryptoHelper.Init(ctx)
RunInitCrypto(n) ==
    /\ runPc[n] = "init"
    /\ IF runFail[n] = "crypto_init"
       THEN RunFails(n, ErrInitCrypto)
       ELSE RunGoes(n, "assign")
    /\ RunStep
    /\ UNCHANGED <<botVars, objVars, ctxVars, runFail, taskVars, stopVars>>
    /\ UNCHANGED <<newVars, appVars>>

\* b.crypto = cryptoHelper; b.client.Crypto = cryptoHelper
RunAssignCrypto(n) ==
    /\ runPc[n] = "assign"
    /\ crypto' = n
    /\ clientCrypto' = [clientCrypto EXCEPT ![client] = n]
    /\ RunGoes(n, "ctx")
    /\ RunStep
    /\ UNCHANGED <<client, cancelSync, syncWait, routes, store, closeCount, ctxVars,
                   runFail, taskVars, stopVars>>
    /\ UNCHANGED <<newVars, appVars>>

\* syncCtx, cancelSync := context.WithCancel(ctx); b.cancelSync = cancelSync
RunWithCancel(n) ==
    /\ runPc[n] = "ctx"
    /\ cancelSync' = n
    /\ RunGoes(n, "add")
    /\ RunStep
    /\ UNCHANGED <<client, crypto, syncWait, objVars, ctxVars, runFail, taskVars,
                   stopVars>>
    /\ UNCHANGED <<newVars, appVars>>

\* b.syncWait.Add(1)
RunAdd(n) ==
    /\ runPc[n] = "add"
    /\ syncWait' = syncWait + 1
    /\ RunGoes(n, "go")
    /\ RunStep
    /\ UNCHANGED <<client, crypto, cancelSync, objVars, ctxVars, runFail, taskVars,
                   stopVars>>
    /\ UNCHANGED <<newVars, appVars>>

\* go func() { ... }()
RunGo(n) ==
    /\ runPc[n] = "go"
    /\ task' = [task EXCEPT ![n] = "running"]
    /\ RunGoes(n, "blocked")
    /\ RunStep
    /\ UNCHANGED <<botVars, objVars, ctxVars, runFail, taskErr, syncErrLog, stopVars>>
    /\ UNCHANGED <<newVars, appVars>>

\* Run also returns when the sync goroutine has exited
RunReturn_OnSyncExit(n) ==
    /\ runPc[n] = "blocked"
    /\ SyncCtxDone(n) \/ task[n] = "exited"
    /\ runPc' = [runPc EXCEPT ![n] = "done"]
    /\ runResult' = [runResult EXCEPT ![n] = "nil"]
    /\ UNCHANGED <<botVars, objVars, ctxVars, runFail, taskVars, stopVars, quiet>>
    /\ UNCHANGED <<newVars, appVars>>

\* Run returns the stream's error when the sync goroutine failed
RunReturn_OnSyncError(n) ==
    /\ runPc[n] = "blocked"
    /\ SyncCtxDone(n) \/ taskErr[n] = "error"
    /\ runPc' = [runPc EXCEPT ![n] = "done"]
    /\ runResult' = [runResult EXCEPT ![n] =
            IF taskErr[n] = "error" THEN "sync error" ELSE "nil"]
    /\ UNCHANGED <<botVars, objVars, ctxVars, runFail, taskVars, stopVars, quiet>>
    /\ UNCHANGED <<newVars, appVars>>

\* Run waits for the sync goroutine before it returns
RunReturn_WaitsForTask(n) ==
    /\ runPc[n] = "blocked"
    /\ SyncCtxDone(n)
    /\ task[n] = "exited"
    /\ runPc' = [runPc EXCEPT ![n] = "done"]
    /\ runResult' = [runResult EXCEPT ![n] = "nil"]
    /\ UNCHANGED <<botVars, objVars, ctxVars, runFail, taskVars, stopVars, quiet>>
    /\ UNCHANGED <<newVars, appVars>>

\* <-syncCtx.Done(); return nil
RunReturn(n) ==
    /\ runPc[n] = "blocked"
    /\ SyncCtxDone(n)
    /\ runPc' = [runPc EXCEPT ![n] = "done"]
    /\ runResult' = [runResult EXCEPT ![n] = "nil"]
    /\ UNCHANGED <<botVars, objVars, ctxVars, runFail, taskVars, stopVars, quiet>>
    /\ UNCHANGED <<newVars, appVars>>

----------------------------------------------------------------------------
\* The sync goroutine of Run call n

\* a route of client n's syncer is running on the goroutine
Dispatching(n) == disp.state = "running" /\ disp.task = n

\* the goroutine ends while a route is still running on it
SyncExits_MidDispatch(n, err) ==
    /\ task[n] = "running"
    /\ task' = [task EXCEPT ![n] = "exited"]
    /\ taskErr' = [taskErr EXCEPT ![n] = err]
    /\ syncWait' = syncWait - 1

\* the goroutine ends: SyncWithContext returns, between two events, and
\* defer b.syncWait.Done() runs
SyncExits(n, err) ==
    /\ task[n] = "running"
    /\ ~Dispatching(n)
    /\ task' = [task EXCEPT ![n] = "exited"]
    /\ taskErr' = [taskErr EXCEPT ![n] = err]
    /\ syncWait' = syncWait - 1

\* the sync call returns only when Stop cancelled its context, not when the
\* ctx passed to Run is cancelled
SyncCanceled_OnStopOnly(n) ==
    /\ cancelled[n]
    /\ SyncExits(n, "canceled")
    /\ UNCHANGED <<client, crypto, cancelSync, objVars, ctxVars, runVars, syncErrLog,
                   stopVars, quiet>>
    /\ UNCHANGED <<newVars, appVars>>

\* b.client.SyncWithContext(syncCtx) returns context.Canceled, which is what
\* syncCtx.Err() is unless the deadline of Run's ctx ended it: nothing is logged
SyncCanceled(n) ==
    /\ SyncCtxDone(n)
    /\ cancelled[n] \/ ~deadline[n]
    /\ SyncExits(n, "canceled")
    /\ UNCHANGED <<client, crypto, cancelSync, objVars, ctxVars, runVars, syncErrLog,
                   stopVars, quiet>>
    /\ UNCHANGED <<newVars, appVars>>

\* the stream fails, "Sync error" is logged and the goroutine opens the stream
\* again
SyncError_Retry(n) ==
    /\ task[n] = "running"
    /\ ~Dispatching(n)
    /\ taskErr[n] # "error"
    /\ taskErr' = [taskErr EXCEPT ![n] = "error"]
    /\ syncErrLog' = syncErrLog \cup {n}
    /\ UNCHANGED <<botVars, objVars, ctxVars, runVars, task, stopVars, quiet>>
    /\ UNCHANGED <<newVars, appVars>>

\* b.client.SyncWithContext(syncCtx) returns another error: "Sync error" is logged
SyncError(n) ==
    /\ SyncExits(n, "error")
    /\ syncErrLog' = syncErrLog \cup {n}
    /\ UNCHANGED <<client, crypto, cancelSync, objVars, ctxVars, runVars, stopVars,
                   quiet>>
    /\ UNCHANGED <<newVars, appVars>>

\* b.client.SyncWithContext(syncCtx) returns context.DeadlineExceeded, which
\* is what syncCtx.Err() is when the deadline of Run's ctx ended it (if Stop
\* cancelled it too, the earlier of the two decides): the error is not
\* context.Canceled, and "Sync error" is logged
SyncDeadline(n) ==
    /\ ctxDone[n] /\ deadline[n]
    /\ SyncExits(n, "deadline")
    /\ syncErrLog' = syncErrLog \cup {n}
    /\ UNCHANGED <<client, crypto, cancelSync, objVars, ctxVars, runVars, stopVars,
                   quiet>>
    /\ UNCHANGED <<newVars, appVars>>

----------------------------------------------------------------------------
\* Bot.Stop

\* Stop is called from one flow: call s is made once call s - 1 has returned
PrevStopReturned(s) == IF s = 1 THEN TRUE ELSE stopPc[s - 1] = "done"

\* a Stop call is made
StopCalled ==
    quiet' = IF quiet = "no" /\ \A n \in Runs : runPc[n] \in {"idle", "blocked", "done"}
             THEN "stopping"
             ELSE quiet

\* Stop calls b.cancelSync without the nil check: calling a nil func panics
StopCancel_NoNilCheck(s) ==
    /\ stopPc[s] = "idle"
    /\ PrevStopReturned(s)
    /\ IF cancelSync # NIL
       THEN /\ cancelled' = [cancelled EXCEPT ![cancelSync] = TRUE]
            /\ stopPc' = [stopPc EXCEPT ![s] = "wait"]
            /\ UNCHANGED stopResult
       ELSE /\ stopPc' = [stopPc EXCEPT ![s] = "done"]
            /\ stopResult' = [stopResult EXCEPT ![s] = <<"panic", NIL>>]
            /\ UNCHANGED cancelled
    /\ StopCalled
    /\ UNCHANGED <<botVars, objVars, ctxDone, deadline, runVars, taskVars>>
    /\ UNCHANGED <<newVars, appVars>>

\* Stop does not call b.cancelSync
StopCancel_Skip(s) ==
    /\ stopPc[s] = "idle"
    /\ PrevStopReturned(s)
    /\ stopPc' = [stopPc EXCEPT ![s] = "wait"]
    /\ StopCalled
    /\ UNCHANGED <<botVars, objVars, ctxVars, runVars, taskVars, stopResult>>
    /\ UNCHANGED <<newVars, appVars>>

\* if b.cancelSync != nil { b.cancelSync() }
StopCancel(s) ==
    /\ stopPc[s] = "idle"
    /\ PrevStopReturned(s)
    /\ IF cancelSync # NIL
       THEN cancelled' = [cancelled EXCEPT ![cancelSync] = TRUE]
       ELSE UNCHANGED cancelled
    /\ stopPc' = [stopPc EXCEPT ![s] = "wait"]
    /\ StopCalled
    /\ UNCHANGED <<botVars, objVars, ctxDone, deadline, runVars, taskVars, stopResult>>
    /\ UNCHANGED <<newVars, appVars>>

\* Stop does not wait for the sync goroutine
StopWait_NoWait(s) ==
    /\ stopPc[s] = "wait"
    /\ stopPc' = [stopPc EXCEPT ![s] = "close"]
    /\ UNCHANGED <<botVars, objVars, ctxVars, runVars, taskVars, stopResult, quiet>>
    /\ UNCHANGED <<newVars, appVars>>

\* b.syncWait.Wait()
StopWait(s) ==
    /\ stopPc[s] = "wait"
    /\ syncWait = 0
    /\ stopPc' = [stopPc EXCEPT ![s] = "close"]
    /\ UNCHANGED <<botVars, objVars, ctxVars, runVars, taskVars, stopResult, quiet>>
    /\ UNCHANGED <<newVars, appVars>>

\* if b.crypto != nil { return b.crypto.Close() }; return nil
StopClose(s) ==
    /\ stopPc[s] = "close"
    /\ IF crypto # NIL
       THEN /\ store' = [store EXCEPT ![crypto] = "closed"]
            /\ closeCount' = [closeCount EXCEPT ![crypto] = @ + 1]
            /\ stopResult' = [stopResult EXCEPT ![s] = CloseResult(crypto)]
       ELSE /\ stopResult' = [stopResult EXCEPT ![s] = NilError]
            /\ UNCHANGED <<store, closeCount>>
    /\ stopPc' = [stopPc EXCEPT ![s] = "done"]
    /\ quiet' = IF quiet = "stopping" THEN "stopped" ELSE quiet
    /\ UNCHANGED <<botVars, routes, clientCrypto, ctxVars, runVars, taskVars>>
    /\ UNCHANGED <<newVars, appVars>>

----------------------------------------------------------------------------

Next ==
    \/ \E n \in Runs : CancelCtx(n)
    \/ \E n \in Runs : RunNewClient(n)
    \/ \E n \in Runs : RunRegisterRoutes(n)
    \/ \E n \in Runs : RunNewCryptoHelper(n)
    \/ \E n \in Runs : RunInitCrypto(n)
    \/ \E n \in Runs : RunAssignCrypto(n)
    \/ \E n \in Runs : RunWithCancel(n)
    \/ \E n \in Runs : RunAdd(n)
    \/ \E n \in Runs : RunGo(n)
    \/ \E n \in Runs : RunReturn(n)
    \/ \E n \in Runs : SyncCanceled(n)
    \/ \E n \in Runs : SyncError(n)
    \/ \E s \in Stops : StopCancel(s)
    \/ \E s \in Stops : StopWait(s)
    \/ \E s \in Stops : StopClose(s)

Spec == Init /\ [][Next]_vars

\* The Go scheduler runs every runnable goroutine: a Run or Stop call that can
\* take its next statement takes it, and the sync call returns once its context
\* is cancelled.  Nothing obliges the caller to call Run or Stop or to cancel a
\* context, nor the stream to fail.
Fairness ==
    /\ \A n \in Runs : WF_vars(RunReturn(n))
    /\ \A n \in Runs : WF_vars(SyncCanceled(n))
    /\ \A s \in Stops : WF_vars(StopWait(s))
    /\ \A s \in Stops : WF_vars(StopClose(s))

LiveSpec == Init /\ [][Next]_vars /\ Fairness

\* Moreover a Run call that was made goes on: each statement of its bootstrap
\* completes, with or without an error.
RunFairness ==
    /\ \A n \in Runs : WF_vars(RunRegisterRoutes(n))
    /\ \A n \in Runs : WF_vars(RunNewCryptoHelper(n))
    /\ \A n \in Runs : WF_vars(RunInitCrypto(n))
    /\ \A n \in Runs : WF_vars(RunAssignCrypto(n))
    /\ \A n \in Runs : WF_vars(RunWithCancel(n))
    /\ \A n \in Runs : WF_vars(RunAdd(n))
    /\ \A n \in Runs : WF_vars(RunGo(n))

ProgressSpec == Init /\ [][Next]_vars /\ Fairness /\ RunFairness

----------------------------------------------------------------------------
\* Properties

\* Run call n got through its bootstrap: its sync context exists
Bootstrapped(n) == runPc[n] \in {"ctx", "add", "go", "blocked"} \/ runResult[n] = "nil"

\* Run call n is the last one made so far
LastRun(n) == IF n = MaxRuns THEN TRUE ELSE runPc[n + 1] = "idle"

\* the error Run returns when its bootstrap fails at step f
PhaseError(f) ==
    CASE f = "client" -> ErrCreateClient
      [] f = "crypto_helper" -> ErrCreateCryptoHelper
      [] f = "crypto_init" -> ErrInitCrypto
      [] OTHER -> "nil"

\* Stop call s takes a step
StopSteps(s) == stopPc'[s] # stopPc[s]

----------------------------------------------------------------------------
\* NewBot

\* func NewBot(config Config) (*Bot, error): Validate, default the Database,
\* return &Bot{config: config}; nothing else is touched
NewBot ==
    /\ newBotErr = "none"
    /\ newBotErr' = Validate(newBotArg)
    /\ constructed' = (Validate(newBotArg) = "nil")
    /\ config' = IF Validate(newBotArg) = "nil" THEN WithDefaults(newBotArg) ELSE ZeroConfig
    /\ UNCHANGED <<newBotArg, lifeVars, appVars>>

\* NewBot is about to be called with one of the Configs
ConfigInit ==
    /\ ZeroBot
    /\ newBotArg \in Configs
    /\ newBotErr = "none"
    /\ constructed = FALSE
    /\ config = ZeroConfig

ConfigSpec == ConfigInit /\ [][NewBot]_vars

----------------------------------------------------------------------------
\* One session: the first Run call and the first Stop call of a process that
\* no panic has ended

InSession(n) == ~crashed /\ \A m \in Runs \ {n} : runPc[m] = "idle"

StopInSession(s) == ~crashed /\ \A t \in Stops \ {s} : stopPc[t] = "idle"

\* the Run call made last, NIL when Run was never called
LatestRun ==
    IF \A n \in Runs : runPc[n] = "idle"
    THEN NIL
    ELSE CHOOSE n \in Runs : runPc[n] # "idle" /\ LastRun(n)

\* how far the bootstrap of the Bot has got
SessionState ==
    IF LatestRun = NIL THEN "never"
    ELSE IF runResult[LatestRun] \in BootstrapErrors THEN "failed"
    ELSE IF Bootstrapped(LatestRun) THEN "ready"
    ELSE "bootstrapping"

----------------------------------------------------------------------------
\* A session whose ctx the caller cancels or gave a deadline

StreamNext ==
    \/ \E n \in Runs : InSession(n) /\ CancelCtx(n)
    \/ \E n \in Runs : InSession(n) /\ CtxTimesOut(n)
    \/ \E n \in Runs : InSession(n) /\ RunNewClient(n)
    \/ \E n \in Runs : InSession(n) /\ RunRegisterRoutes(n)
    \/ \E n \in Runs : InSession(n) /\ RunNewCryptoHelper(n)
    \/ \E n \in Runs : InSession(n) /\ RunInitCrypto(n)
    \/ \E n \in Runs : InSession(n) /\ RunAssignCrypto(n)
    \/ \E n \in Runs : InSession(n) /\ RunWithCancel(n)
    \/ \E n \in Runs : InSession(n) /\ RunAdd(n)
    \/ \E n \in Runs : InSession(n) /\ RunGo(n)
    \/ \E n \in Runs : InSession(n) /\ RunReturn(n)
    \/ \E n \in Runs : InSession(n) /\ SyncCanceled(n)
    \/ \E n \in Runs : InSession(n) /\ SyncDeadline(n)
    \/ \E n \in Runs : InSession(n) /\ SyncError(n)
    \/ \E s \in Stops : StopInSession(s) /\ StopCancel(s)
    \/ \E s \in Stops : StopInSession(s) /\ StopWait(s)
    \/ \E s \in Stops : StopInSession(s) /\ StopClose(s)

StreamSpec == Init /\ [][StreamNext]_vars

----------------------------------------------------------------------------
\* Bot.OnMessage

\* OnMessage puts the handler in front of the list
OnMessage_Prepend(k) ==
    /\ ~crashed
    /\ Len(handlers) < MaxHandlers
    /\ handlers' = <<k>> \o handlers
    /\ registeredLate' = (registeredLate \/ \E n \in Runs : task[n] # "none")
    /\ UNCHANGED <<lifeVars, newVars, disp, lastSend, crashed>>

\* b.handlers = append(b.handlers, handler)
OnMessage(k) ==
    /\ ~crashed
    /\ Len(handlers) < MaxHandlers
    /\ handlers' = Append(handlers, k)
    /\ registeredLate' = (registeredLate \/ \E n \in Runs : task[n] # "none")
    /\ UNCHANGED <<lifeVars, newVars, disp, lastSend, crashed>>

----------------------------------------------------------------------------
\* The routes on the sync goroutine of Run call n

\* the syncer calls a route while another is still running
CanDeliver_Concurrent(n, e) ==
    /\ ~crashed
    /\ task[n] = "running"
    /\ e.type \in routes[n]

\* the syncer calls a route as soon as it is registered, before Run starts
\* the sync goroutine
CanDeliver_BeforeSync(n, e) ==
    /\ ~crashed
    /\ disp.state # "running"
    /\ e.type \in routes[n]

\* the syncer of client n calls a route while SyncWithContext is running, one
\* event at a time
CanDeliver(n, e) ==
    /\ ~crashed
    /\ task[n] = "running"
    /\ disp.state # "running"
    /\ e.type \in routes[n]

\* handler(ctx, evt.RoomID, evt.Sender, msg) of the i-th handler of the loop
HandlerCall(i) ==
    [handler |-> i, kind |-> disp.hs[i], room |-> disp.evt.room,
     sender |-> disp.evt.sender, body |-> disp.evt.body]

\* the next handler of the loop
NextHandler == Len(disp.calls) + 1

\* the loop is at a handler of kind k
AtHandler(n, k) ==
    /\ ~crashed
    /\ Dispatching(n)
    /\ disp.hs[NextHandler] = k

\* the dispatch began with the sync context live, and the context is done as
\* a handler of the dispatch returns: it was cancelled with the dispatch in
\* progress
CutNow(n) == disp.live /\ SyncCtxDone(n)

\* the loop goes on to the next handler, or ends after the last one
LoopState == IF NextHandler = Len(disp.hs) THEN "done" ELSE "running"

\* the EventMessage route returns at once on a message of the bot's own
MessageRoute_SkipOwn(n, e) ==
    /\ CanDeliver(n, e)
    /\ e.type = "message"
    /\ disp' = [state |-> IF handlers = <<>> \/ e.sender = BotUser
                          THEN "done" ELSE "running",
                task |-> n, evt |-> e,
                hs |-> IF e.sender = BotUser THEN <<>> ELSE handlers,
                calls |-> <<>>, joins |-> <<>>, sends |-> <<>>,
                live |-> ~SyncCtxDone(n), cut |-> FALSE]
    /\ UNCHANGED <<lifeVars, newVars, handlers, registeredLate, lastSend, crashed>>

\* EventMessage route: msg := evt.Content.AsMessage();
\* for _, handler := range b.handlers: the range expression is read once
MessageRoute(n, e) ==
    /\ CanDeliver(n, e)
    /\ e.type = "message"
    /\ disp' = [state |-> IF handlers = <<>> THEN "done" ELSE "running",
                task |-> n, evt |-> e, hs |-> handlers, calls |-> <<>>,
                joins |-> <<>>, sends |-> <<>>, live |-> ~SyncCtxDone(n),
                cut |-> FALSE]
    /\ UNCHANGED <<lifeVars, newVars, handlers, registeredLate, lastSend, crashed>>

\* a handler is invoked and returns
HandlerReturns(n) ==
    /\ AtHandler(n, "return")
    /\ disp' = [disp EXCEPT !.calls = Append(@, HandlerCall(NextHandler)),
                            !.state = LoopState,
                            !.cut = CutNow(n)]
    /\ UNCHANGED <<lifeVars, newVars, handlers, registeredLate, lastSend, crashed>>

\* the echo handler is invoked: bot.SendText(ctx, roomID, "Echo: "+msg.Body),
\* whose error it prints; then it returns
HandlerEchoes(n) ==
    /\ AtHandler(n, "echo")
    /\ client # NIL
    /\ \E out \in Outcomes :
        disp' = [disp EXCEPT
                    !.calls = Append(@, HandlerCall(NextHandler)),
                    !.sends = @ \o SendAttempts(client, disp.evt.room,
                                     SendContent("SendText", EchoText(disp.evt.body),
                                                 "", <<>>), out),
                    !.state = LoopState,
                    !.cut = CutNow(n)]
    /\ UNCHANGED <<lifeVars, newVars, handlers, registeredLate, lastSend, crashed>>

\* a handler is invoked and panics.  Nothing in the route recovers: the panic
\* leaves the loop and the route.  Above the route it either ends the process
\* (the goroutine's deferred b.syncWait.Done() having run), or the client
\* library recovers it and SyncWithContext returns it as an error, which the
\* goroutine logs before it ends.
HandlerPanics(n) ==
    /\ AtHandler(n, "panic")
    /\ disp' = [disp EXCEPT !.calls = Append(@, HandlerCall(NextHandler)),
                            !.state = "panicked",
                            !.cut = CutNow(n)]
    /\ task' = [task EXCEPT ![n] = "exited"]
    /\ syncWait' = syncWait - 1
    /\ \E recovered \in BOOLEAN :
        /\ crashed' = ~recovered
        /\ taskErr' = [taskErr EXCEPT ![n] = IF recovered THEN "error" ELSE "panic"]
        /\ syncErrLog' = IF recovered THEN syncErrLog \cup {n} ELSE syncErrLog
    /\ UNCHANGED <<client, crypto, cancelSync, objVars, ctxVars, runVars, stopVars,
                   quiet, newVars, handlers, registeredLate, lastSend>>

\* the route tries the join a second time when it failed
MemberRoute_RetryJoin(n, e) ==
    /\ CanDeliver(n, e)
    /\ e \in MemberEvents
    /\ \E out \in Outcomes :
        disp' = [state |-> "done", task |-> n, evt |-> e, hs |-> <<>>,
                 calls |-> <<>>,
                 joins |-> IF ShouldJoin(BotUser, e)
                           THEN IF out = "error"
                                THEN <<[client |-> client, room |-> e.room, outcome |-> out],
                                       [client |-> client, room |-> e.room, outcome |-> "nil"]>>
                                ELSE <<[client |-> client, room |-> e.room, outcome |-> out]>>
                           ELSE <<>>,
                 sends |-> <<>>, live |-> ~SyncCtxDone(n), cut |-> FALSE]
    /\ UNCHANGED <<lifeVars, newVars, handlers, registeredLate, lastSend, crashed>>

\* the StateMember route also ranges over the message handlers
MemberRoute_AlsoDispatches(n, e) ==
    /\ CanDeliver(n, e)
    /\ e \in MemberEvents
    /\ \E out \in Outcomes :
        disp' = [state |-> IF handlers = <<>> THEN "done" ELSE "running",
                 task |-> n, evt |-> e, hs |-> handlers, calls |-> <<>>,
                 joins |-> IF ShouldJoin(BotUser, e)
                           THEN <<[client |-> client, room |-> e.room, outcome |-> out]>>
                           ELSE <<>>,
                 sends |-> <<>>, live |-> ~SyncCtxDone(n), cut |-> FALSE]
    /\ UNCHANGED <<lifeVars, newVars, handlers, registeredLate, lastSend, crashed>>

\* StateMember route: join the room when the bot is invited; the join's error
\* is logged
MemberRoute(n, e) ==
    /\ CanDeliver(n, e)
    /\ e \in MemberEvents
    /\ \E out \in Outcomes :
        disp' = [state |-> "done", task |-> n, evt |-> e, hs |-> <<>>,
                 calls |-> <<>>,
                 joins |-> IF ShouldJoin(BotUser, e)
                           THEN <<[client |-> client, room |-> e.room, outcome |-> out]>>
                           ELSE <<>>,
                 sends |-> <<>>, live |-> ~SyncCtxDone(n), cut |-> FALSE]
    /\ UNCHANGED <<lifeVars, newVars, handlers, registeredLate, lastSend, crashed>>

----------------------------------------------------------------------------
\* Bot.SendText, Bot.SendHTML, Bot.SendReply, called from outside a handler

\* a send whose transmit failed drops the client handle
BotSend_DropClientOnError(op, room, text, html, ids) ==
    /\ ~crashed
    /\ client # NIL
    /\ \E out \in Outcomes :
        /\ lastSend' = [op |-> op, room |-> room, text |-> text, html |-> html,
                        ids |-> ids, session |-> SessionState,
                        attempts |-> SendAttempts(client, room,
                                         SendContent(op, text, html, ids), out),
                        result |-> out]
        /\ client' = IF out = "error" THEN NIL ELSE client
    /\ UNCHANGED <<crypto, cancelSync, syncWait, objVars, ctxVars, runVars, taskVars,
                   stopVars, quiet, newVars, handlers, registeredLate, disp, crashed>>

\* a send: one call on b.client, whose error is returned.  With b.client nil
\* the call dereferences a nil *mautrix.Client and panics.
BotSend(op, room, text, html, ids) ==
    /\ ~crashed
    /\ IF client = NIL
       THEN /\ lastSend' = [op |-> op, room |-> room, text |-> text, html |-> html,
                            ids |-> ids, session |-> SessionState,
                            attempts |-> <<>>, result |-> "panic"]
            /\ crashed' = TRUE
       ELSE /\ \E out \in Outcomes :
                lastSend' = [op |-> op, room |-> room, text |-> text, html |-> html,
                             ids |-> ids, session |-> SessionState,
                             attempts |-> SendAttempts(client, room,
                                              SendContent(op, text, html, ids), out),
                             result |-> SendReturns(SendAttempts(client, room,
                                              SendContent(op, text, html, ids), out))]
            /\ UNCHANGED crashed
    /\ UNCHANGED <<lifeVars, newVars, handlers, registeredLate, disp>>

\* func (b *Bot) SendText(ctx, roomID, text) error
SendText(room, text) == BotSend("SendText", room, text, "", <<>>)

\* func (b *Bot) SendHTML(ctx, roomID, text, html) error
SendHTML(room, text, html) == BotSend("SendHTML", room, text, html, <<>>)

\* func (b *Bot) SendReply(ctx, roomID, text, html, mentionUserIDs...) error
SendReply(room, text, html, ids) == BotSend("SendReply", room, text, html, ids)

----------------------------------------------------------------------------
\* A session with events arriving

DispatchNext ==
    \/ \E n \in Runs : InSession(n) /\ CancelCtx(n)
    \/ \E n \in Runs : InSession(n) /\ RunNewClient(n)
    \/ \E n \in Runs : InSession(n) /\ RunRegisterRoutes(n)
    \/ \E n \in Runs : InSession(n) /\ RunNewCryptoHelper(n)
    \/ \E n \in Runs : InSession(n) /\ RunInitCrypto(n)
    \/ \E n \in Runs : InSession(n) /\ RunAssignCrypto(n)
    \/ \E n \in Runs : InSession(n) /\ RunWithCancel(n)
    \/ \E n \in Runs : InSession(n) /\ RunAdd(n)
    \/ \E n \in Runs : InSession(n) /\ RunGo(n)
    \/ \E n \in Runs : InSession(n) /\ RunReturn(n)
    \/ \E n \in Runs : InSession(n) /\ SyncCanceled(n)
    \/ \E n \in Runs : InSession(n) /\ SyncError(n)
    \/ \E s \in Stops : StopInSession(s) /\ StopCancel(s)
    \/ \E s \in Stops : StopInSession(s) /\ StopWait(s)
    \/ \E s \in Stops : StopInSession(s) /\ StopClose(s)
    \/ \E k \in HandlerKinds : OnMessage(k)
    \/ \E n \in Runs, e \in MessageEvents : MessageRoute(n, e)
    \/ \E n \in Runs : HandlerReturns(n)
    \/ \E n \in Runs : HandlerEchoes(n)
    \/ \E n \in Runs : HandlerPanics(n)
    \/ \E n \in Runs, e \in MemberEvents : MemberRoute(n, e)

DispatchSpec == Init /\ [][DispatchNext]_vars

----------------------------------------------------------------------------
\* A session with sends called from outside the handlers, at any moment of the
\* Run call.  Stop writes nothing a send reads, and is left out.

SendNext ==
    \/ \E n \in Runs : InSession(n) /\ CancelCtx(n)
    \/ \E n \in Runs : InSession(n) /\ RunNewClient(n)
    \/ \E n \in Runs : InSession(n) /\ RunRegisterRoutes(n)
    \/ \E n \in Runs : InSession(n) /\ RunNewCryptoHelper(n)
    \/ \E n \in Runs : InSession(n) /\ RunInitCrypto(n)
    \/ \E n \in Runs : InSession(n) /\ RunAssignCrypto(n)
    \/ \E n \in Runs : InSession(n) /\ RunWithCancel(n)
    \/ \E n \in Runs : InSession(n) /\ RunAdd(n)
    \/ \E n \in Runs : InSession(n) /\ RunGo(n)
    \/ \E n \in Runs : InSession(n) /\ RunReturn(n)
    \/ \E n \in Runs : InSession(n) /\ SyncCanceled(n)
    \/ \E n \in Runs : InSession(n) /\ SyncError(n)
    \/ \E room \in Rooms, text \in Texts : SendText(room, text)
    \/ \E room \in Rooms, text \in Texts, html \in Htmls : SendHTML(room, text, html)
    \/ \E room \in Rooms, text \in Texts, html \in Htmls, ids \in MentionLists :
            SendReply(room, text, html, ids)

SendSpec == Init /\ [][SendNext]_vars

----------------------------------------------------------------------------
\* Every operation of the package on one Bot: NewBot, then one session that
\* Stop ends, with OnMessage, events and sends at any moment.  The inputs are
\* a few of each kind: a Config NewBot rejects, one whose Database it defaults
\* and one it takes as it is; handlers that return or echo; a message of
\* another user and an invitation of the bot in one room; one send of each
\* kind.

BotConfigs ==
    {SampleConfig, [SampleConfig EXCEPT !.Database = "bot.db"],
     [SampleConfig EXCEPT !.Password = ""]}

BotHandlerKinds == {"return", "echo"}

BotMessageEvents ==
    {e \in MessageEvents : e.room = "!r1" /\ e.sender # BotUser}

BotMemberEvents ==
    {e \in MemberEvents : e.room = "!r1" /\ e.membership = "invite"
                          /\ e.stateKey = BotUser}

BotMentions == <<"@alice:matrix.org">>

\* NewBot is about to be called with one of the BotConfigs
BotInit ==
    /\ ZeroBot
    /\ newBotArg \in BotConfigs
    /\ newBotErr = "none"
    /\ constructed = FALSE
    /\ config = ZeroConfig

\* the methods are called on the Bot NewBot returned
BotNext ==
    \/ NewBot
    \/ \E n \in Runs : constructed /\ InSession(n) /\ RunNewClient(n)
    \/ \E n \in Runs : InSession(n) /\ RunRegisterRoutes(n)
    \/ \E n \in Runs : InSession(n) /\ RunNewCryptoHelper(n)
    \/ \E n \in Runs : InSession(n) /\ RunInitCrypto(n)
    \/ \E n \in Runs : InSession(n) /\ RunAssignCrypto(n)
    \/ \E n \in Runs : InSession(n) /\ RunWithCancel(n)
    \/ \E n \in Runs : InSession(n) /\ RunAdd(n)
    \/ \E n \in Runs : InSession(n) /\ RunGo(n)
    \/ \E n \in Runs : InSession(n) /\ RunReturn(n)
    \/ \E n \in Runs : InSession(n) /\ SyncCanceled(n)
    \/ \E n \in Runs : InSession(n) /\ SyncError(n)
    \/ \E s \in Stops : constructed /\ StopInSession(s) /\ StopCancel(s)
    \/ \E s \in Stops : StopInSession(s) /\ StopWait(s)
    \/ \E s \in Stops : StopInSession(s) /\ StopClose(s)
    \/ \E k \in BotHandlerKinds : constructed /\ OnMessage(k)
    \/ \E n \in Runs, e \in BotMessageEvents : MessageRoute(n, e)
    \/ \E n \in Runs : HandlerReturns(n)
    \/ \E n \in Runs : HandlerEchoes(n)
    \/ \E n \in Runs, e \in BotMemberEvents : MemberRoute(n, e)
    \/ constructed /\ SendText("!r1", "hi")
    \/ constructed /\ SendHTML("!r1", "hi", "<b>hi</b>")
    \/ constructed /\ SendReply("!r1", "hi", "<b>hi</b>", BotMentions)

BotSpec == BotInit /\ [][BotNext]_vars

----------------------------------------------------------------------------
\* A session of the README's echo bot: every registered handler is the echo
\* handler.  The stream carries the messages of other users and, once the
\* bot has sent an echo, that echo as a message event of the bot's own.

\* the last dispatch sent the message the event e carries
SentByBot(e) ==
    /\ e.sender = BotUser
    /\ \E i \in 1..Len(disp.sends) :
        /\ disp.sends[i].outcome = "nil"
        /\ disp.sends[i].room = e.room
        /\ disp.sends[i].content.Body = e.body

EchoNext ==
    \/ \E n \in Runs : InSession(n) /\ CancelCtx(n)
    \/ \E n \in Runs : InSession(n) /\ RunNewClient(n)
    \/ \E n \in Runs : InSession(n) /\ RunRegisterRoutes(n)
    \/ \E n \in Runs : InSession(n) /\ RunNewCryptoHelper(n)
    \/ \E n \in Runs : InSession(n) /\ RunInitCrypto(n)
    \/ \E n \in Runs : InSession(n) /\ RunAssignCrypto(n)
    \/ \E n \in Runs : InSession(n) /\ RunWithCancel(n)
    \/ \E n \in Runs : InSession(n) /\ RunAdd(n)
    \/ \E n \in Runs : InSession(n) /\ RunGo(n)
    \/ \E n \in Runs : InSession(n) /\ RunReturn(n)
    \/ \E n \in Runs : InSession(n) /\ SyncCanceled(n)
    \/ \E n \in Runs : InSession(n) /\ SyncError(n)
    \/ OnMessage("echo")
    \/ \E n \in Runs, e \in EchoesUpTo(0) : MessageRoute(n, e)
    \/ \E n \in Runs, e \in EchoEvents : SentByBot(e) /\ MessageRoute(n, e)
    \/ \E n \in Runs : HandlerEchoes(n)

EchoSpec == Init /\ [][EchoNext]_vars

----------------------------------------------------------------------------
\* Claims

\* C1: in every interleaving of Run and Stop, key-store handle h is not closed
\* while the sync goroutine that uses it is running or is still to be started
\* by the Run call that opened it.
C1_StoreOpenWhileSyncCanRun ==
    \A h \in Runs :
        store[h] = "closed" =>
            /\ task[h] # "running"
            /\ runPc[h] \notin {"ctx", "add", "go"}

\* C2: a Stop call made after the sync goroutine was started leaves that
\* goroutine's context cancelled before it waits, and gets past its wait only
\* when no started sync goroutine is still running.
C2_StopCancelsThenWaits ==
    [][\A s \in Stops :
        /\ (stopPc[s] = "idle" /\ stopPc'[s] = "wait") =>
                \A n \in Runs : task[n] # "none" => SyncCtxDone(n)'
        /\ (stopPc[s] = "wait" /\ StopSteps(s)) =>
                \A n \in Runs : task[n] # "running" /\ task'[n] # "running"]_vars

\* C2 witness: a Stop cancelled the context of a running sync goroutine, the
\* goroutine exited on that cancellation and the Stop returned.
C2_Witness ==
    \E s \in Stops, n \in Runs :
        /\ stopPc[s] = "done"
        /\ cancelled[n] /\ ~ctxDone[n]
        /\ task[n] = "exited" /\ taskErr[n] = "canceled"

\* C3: while Run was never called, every Stop call cancels nothing, finds
\* nothing to wait for, closes no key-store and returns nil.
C3_StopBeforeRunIsNoOp ==
    (\A n \in Runs : runPc[n] = "idle") =>
        /\ \A n \in Runs : ~cancelled[n] /\ store[n] = "none" /\ closeCount[n] = 0
        /\ syncWait = 0
        /\ \A s \in Stops : stopResult[s] \in {NotReturned, NilError}
        /\ \A s \in Stops : stopPc[s] = "done" => stopResult[s] = NilError

\* C3 witness: a Stop call returned and Run was never called.
C3_Witness ==
    /\ \A n \in Runs : runPc[n] = "idle"
    /\ stopPc[1] = "done"

\* C4: a Stop call made after an earlier Stop returned changes nothing: it
\* cancels no context and closes no key-store handle again.  (The earlier
\* Stop was called while no Run call was in its bootstrap, and no statement of
\* Run has written the Bot since.)
C4_SecondStopChangesNothing ==
    [][\A s \in Stops :
        (quiet = "stopped" /\ StopSteps(s)) =>
            UNCHANGED <<cancelled, store, closeCount>>]_vars

\* C5: once Run call n is blocked, cancelling its ctx makes it return nil,
\* whether its sync goroutine still runs or has exited on a stream error.
C5_CtxCancelReturnsRun ==
    \A n \in Runs :
        (runPc[n] = "blocked" /\ ctxDone[n]) ~> (runPc[n] = "done" /\ runResult[n] = "nil")

\* C5 witness: Run returned nil on its ctx being cancelled, no Stop having
\* cancelled its sync context, after its sync goroutine exited on an error.
C5_Witness ==
    \E n \in Runs :
        /\ runPc[n] = "done" /\ runResult[n] = "nil"
        /\ ctxDone[n] /\ ~cancelled[n]
        /\ task[n] = "exited" /\ taskErr[n] = "error"

C9_BootstrapAllOrNothing ==
    \A n \in Runs :
        LastRun(n) =>
            /\ Bootstrapped(n) =>
                    client = n /\ crypto = n /\ clientCrypto[n] = n /\ routes[n] = AllRoutes
            /\ runResult[n] \in BootstrapErrors =>
                    client # n /\ crypto # n /\ clientCrypto[n] = NIL /\ routes[n] = {}

\* C10: a Run call whose bootstrap fails at a step returns that step's error,
\* starts no sync goroutine and records no cancel func; while no Run call got
\* through its bootstrap, no cancel func is recorded and the wait counter is
\* zero, so Stop waits on nothing.
C10_FailedBootstrapStartsNothing ==
    /\ \A n \in Runs :
        (runPc[n] = "done" /\ runFail[n] # "none") =>
            /\ runResult[n] = PhaseError(runFail[n])
            /\ runResult[n] \in BootstrapErrors
            /\ task[n] = "none"
            /\ cancelSync # n
            /\ ~cancelled[n]
    /\ (\A n \in Runs : ~Bootstrapped(n)) =>
            /\ cancelSync = NIL
            /\ syncWait = 0

\* C10 witness: Run failed in its encryption init and a Stop call made after
\* that has returned.
C10_Witness ==
    /\ runResult[1] = ErrInitCrypto
    /\ runPc[2] = "idle"
    /\ stopPc[1] = "done"
    /\ quiet = "stopped"

\* the invocation the loop makes of the i-th handler of the dispatched event
ExpectedCall(i) ==
    [handler |-> i, kind |-> disp.hs[i], room |-> disp.evt.room,
     sender |-> disp.evt.sender, body |-> disp.evt.body]

\* C11: with all N handlers registered before the stream started, the
\* dispatch of a message event invokes the handlers in registration order with
\* the event's room, sender and content, and has invoked exactly N of them
\* when it is over.
C11_EveryHandlerInvokedInOrder ==
    (disp.evt \in MessageEvents /\ ~registeredLate) =>
        /\ disp.hs = handlers
        /\ \A i \in 1..Len(disp.calls) : disp.calls[i] = ExpectedCall(i)
        /\ disp.state # "running" => Len(disp.calls) = Len(handlers)

\* C12: when a handler panicked during the dispatch of a message event, the
\* handlers registered after it are invoked for that event all the same, and
\* the sync goroutine keeps running.
C12_PanicIsIsolated ==
    \A i \in 1..Len(disp.calls) :
        disp.calls[i].kind = "panic" =>
            /\ disp.state = "running" \/ Len(disp.calls) = Len(disp.hs)
            /\ task[disp.task] = "running"
            /\ ~crashed

\* C13: the dispatch of a membership event issues one join request, for the
\* event's room, when the event's state key is the bot's user id and its
\* membership is invite, and none otherwise; a message event issues none.
C13_JoinOnlyOwnInvite ==
    /\ disp.evt \in MemberEvents =>
            IF disp.evt.stateKey = BotUser /\ disp.evt.membership = "invite"
            THEN Len(disp.joins) = 1 /\ disp.joins[1].room = disp.evt.room
            ELSE disp.joins = <<>>
    /\ disp.evt \notin MemberEvents => disp.joins = <<>>

\* C13 witness: the bot was invited to a room and one join request for that
\* room was issued.
C13_Witness ==
    /\ disp.evt \in MemberEvents
    /\ disp.evt.stateKey = BotUser /\ disp.evt.membership = "invite"
    /\ disp.evt.room = "!r2"
    /\ Len(disp.joins) = 1 /\ disp.joins[1].room = "!r2"

\* C14: every event SendHTML hands to the client of a ready session has a
\* non-empty plain-text body next to the HTML body it was given, whatever the
\* two arguments.
C14_HTMLSendHasPlainBody ==
    (lastSend.op = "SendHTML" /\ lastSend.session = "ready") =>
        \A i \in 1..Len(lastSend.attempts) :
            /\ lastSend.attempts[i].content.Body # ""
            /\ lastSend.attempts[i].content.Format = "org.matrix.custom.html"
            /\ lastSend.attempts[i].content.FormattedBody = lastSend.html

\* C15: every event SendReply hands to the client when called with a non-empty
\* list of user ids mentions exactly those ids, in the order given, with the
\* room-wide flag set.
C15_ReplyMentionsUsersAndRoom ==
    (lastSend.op = "SendReply" /\ Len(lastSend.ids) > 0) =>
        \A i \in 1..Len(lastSend.attempts) :
            /\ lastSend.attempts[i].content.Mentions.set
            /\ lastSend.attempts[i].content.Mentions.UserIDs = lastSend.ids
            /\ lastSend.attempts[i].content.Mentions.Room = TRUE

\* C15 witness: SendReply was called with two different user ids and handed
\* an event to the client.
C15_Witness ==
    /\ lastSend.op = "SendReply"
    /\ Len(lastSend.ids) = 2 /\ lastSend.ids[1] # lastSend.ids[2]
    /\ Len(lastSend.attempts) = 1

\* C16: a send called on a ready session makes exactly one call on the client,
\* for the room it was given, and returns what that call returned.
C16_OneAttemptOutcomeReturned ==
    lastSend.session = "ready" =>
        /\ Len(lastSend.attempts) = 1
        /\ lastSend.attempts[1].room = lastSend.room
        /\ lastSend.result = lastSend.attempts[1].outcome

\* C16 witness: a send on a ready session returned the error of its one call
\* on the client.
C16_Witness ==
    /\ lastSend.session = "ready"
    /\ lastSend.op = "SendHTML"
    /\ Len(lastSend.attempts) = 1
    /\ lastSend.result = "error"

\* C17: a send called while Run was never called, or after Run failed in its
\* bootstrap, fails and hands no event to the client.
C17_NoSendBeforeBootstrap ==
    lastSend.session \in {"never", "failed"} =>
        /\ lastSend.attempts = <<>>
        /\ lastSend.result \notin {"none", "nil"}

\* C18: with the echo handler as the one registered handler, the dispatch of
\* a message event with body B in room R makes one SendText call on the
\* client, for room R with body "Echo: " + B, and no send is made outside the
\* dispatch.
C18_EchoSendsOnce ==
    (disp.evt \in MessageEvents /\ disp.hs = <<"echo">>) =>
        /\ disp.state = "running" => disp.sends = <<>>
        /\ disp.state = "done" =>
                /\ Len(disp.sends) = 1
                /\ disp.sends[1].room = disp.evt.room
                /\ disp.sends[1].content =
                        [MsgType |-> "m.text", Body |-> "Echo: " \o disp.evt.body,
                         Format |-> "", FormattedBody |-> "", Mentions |-> NoMentions]
        /\ lastSend = NoSend

\* C18 witness: the message "hi" was dispatched to the echo handler and
\* "Echo: hi" was sent to the message's room.
C18_Witness ==
    /\ disp.evt \in MessageEvents /\ disp.evt.body = "hi" /\ disp.evt.room = "!r1"
    /\ disp.hs = <<"echo">> /\ disp.state = "done"
    /\ Len(disp.sends) = 1
    /\ disp.sends[1].content.Body = "Echo: hi" /\ disp.sends[1].room = "!r1"

\* C19: once NewBot has returned, it returned an error and no Bot when the
\* Config's homeserver, username or password is empty, the error being that of
\* the first empty one in this order, and a Bot and no error when none is
\* empty; no client and no key-store exists, and nothing was started.
C19_NewBotValidates ==
    newBotErr # "none" =>
        /\ newBotArg.Homeserver = "" => newBotErr = ErrHomeserver
        /\ (newBotArg.Homeserver # "" /\ newBotArg.Username = "") => newBotErr = ErrUsername
        /\ (newBotArg.Homeserver # "" /\ newBotArg.Username # "" /\ newBotArg.Password = "")
                => newBotErr = ErrPassword
        /\ (newBotArg.Homeserver # "" /\ newBotArg.Username # "" /\ newBotArg.Password # "")
                => newBotErr = "nil"
        /\ constructed <=> newBotErr = "nil"
        /\ client = NIL /\ crypto = NIL
        /\ \A n \in Runs : store[n] = "none" /\ task[n] = "none" /\ routes[n] = {}

\* C19 witness: NewBot returned the password error for a Config whose
\* password alone is empty.
C19_Witness ==
    /\ newBotArg.Homeserver # "" /\ newBotArg.Username # "" /\ newBotArg.Password = ""
    /\ newBotErr = ErrPassword
    /\ ~constructed

\* C20: once a Stop call has returned (called while no Run call was in its
\* bootstrap, no statement of Run having written the Bot since), no key-store
\* handle a Run call opened is open, and if the last Run call got through its
\* bootstrap a Stop call returned what closing that call's handle returned.
C20_NoStoreOpenAfterStop ==
    quiet = "stopped" =>
        /\ \A h \in Runs : store[h] # "open"
        /\ \A n \in Runs :
                (LastRun(n) /\ Bootstrapped(n)) =>
                    \E s \in Stops : stopResult[s] = CloseResult(n)

\* the sync goroutines that are running
RunningTasks == {n \in Runs : task[n] = "running"}

\* C21: whatever Run and Stop calls are made, at most one sync goroutine of
\* the Bot is running.
C21_AtMostOneSyncTask == Cardinality(RunningTasks) <= 1

\* C22: every Stop call that was made returns.
C22_StopReturns ==
    \A s \in Stops : (stopPc[s] \in {"wait", "close"}) ~> (stopPc[s] = "done")

\* C23: the sync context of a Run call is done whenever the ctx passed to that
\* call is cancelled, and a sync goroutine whose Run call's ctx is cancelled
\* exits, Stop called or not.
C23_CtxCancelEndsStream ==
    /\ [](\A n \in Runs : ctxDone[n] => SyncCtxDone(n))
    /\ \A n \in Runs : (task[n] = "running" /\ ctxDone[n]) ~> (task[n] = "exited")

\* C23 witness: a sync goroutine exited on the cancellation of its Run call's
\* ctx, no Stop call having been made.
C23_Witness ==
    /\ \E n \in Runs : task[n] = "exited" /\ taskErr[n] = "canceled" /\ ctxDone[n]
    /\ \A s \in Stops : stopPc[s] = "idle"

\* C24: a sync goroutine that ended because its context was done, by the
\* cancellation or the deadline of Run's ctx or by Stop, logged no error; one
\* that logged an error ended on an error of the stream.
C24_CancellationNotLogged ==
    \A n \in Runs :
        /\ taskErr[n] \in {"canceled", "deadline"} => n \notin syncErrLog
        /\ n \in syncErrLog => taskErr[n] = "error"

\* a route begins to run: the syncer hands it an event
RouteStarts == disp' # disp /\ disp'.calls = <<>>

\* C25: the sync goroutine of a Run call is started by that call's go
\* statement and by nothing else, a Run call that is blocked has started it,
\* and once the goroutine has ended, on a stream error in particular, it stays
\* ended and no event is dispatched on it.
C25_StreamNeverRetried ==
    [][\A n \in Runs :
        /\ (task[n] = "none" /\ task'[n] # "none") =>
                (runPc[n] = "go" /\ runPc'[n] = "blocked")
        /\ runPc'[n] = "blocked" => task'[n] # "none"
        /\ (task[n] = "exited" \/ taskErr[n] = "error") =>
                /\ task'[n] = "exited"
                /\ RouteStarts => disp'.task # n]_vars

\* C25 witness: events were dispatched, then the stream failed and the sync
\* goroutine ended, its Run call still blocked.
C25_Witness ==
    /\ taskErr[1] = "error" /\ task[1] = "exited" /\ 1 \in syncErrLog
    /\ runPc[1] = "blocked"
    /\ disp.task = 1 /\ disp.state = "done" /\ Len(disp.calls) > 0

\* C26: while the sync goroutine of a Run call is running, both routes are
\* installed on that call's client.
C26_RoutesBeforeStream ==
    \A n \in Runs : task[n] = "running" => routes[n] = AllRoutes

\* C26 witness: the sync goroutine of the second Run call is running with both
\* routes on its client.
C26_Witness ==
    /\ task[2] = "running"
    /\ routes[2] = {"message", "member"}

\* C27: in a Run call, routes are registered only once the client is
\* constructed, the key-store is opened only once the routes are registered,
\* the crypto helper is installed only once the key-store is open and the init
\* succeeded, and the sync goroutine is started only once all of this is done,
\* no step of the call having failed.
C27_BootstrapInOrder ==
    \A n \in Runs :
        /\ routes[n] # {} => (runPc[n] # "idle" /\ runResult[n] # ErrCreateClient)
        /\ store[n] # "none" =>
                /\ routes[n] = AllRoutes
                /\ runResult[n] \notin {ErrCreateClient, ErrCreateCryptoHelper}
        /\ clientCrypto[n] # NIL =>
                /\ store[n] # "none"
                /\ runResult[n] \notin BootstrapErrors
        /\ task[n] # "none" =>
                /\ clientCrypto[n] = n /\ store[n] # "none" /\ routes[n] = AllRoutes
                /\ runFail[n] = "none"

\* C27 witness: a Run call started its sync goroutine, all four steps done.
C27_Witness ==
    /\ task[1] = "running" /\ runPc[1] = "blocked"
    /\ store[1] = "open" /\ clientCrypto[1] = 1 /\ routes[1] = AllRoutes

\* C28: a route begins only when the route of the previous event has run to
\* its end, and while a dispatch is in progress every call made belongs to its
\* event: as long as a handler has not returned, no later event is dispatched.
C28_EventsRoutedSerially ==
    [][/\ RouteStarts => disp.state # "running"
       /\ (disp.state = "running" /\ disp' # disp) =>
                (disp'.evt = disp.evt /\ disp'.task = disp.task)]_vars

\* C28 witness: the first of two handlers has returned and the second is
\* still to be invoked.
C28_Witness ==
    /\ disp.state = "running"
    /\ Len(disp.hs) = 2 /\ Len(disp.calls) = 1

\* C29 as claimed: the sync goroutine does not end while a dispatch is in
\* progress, Stop gets past its wait only when none is, and once the sync
\* context was cancelled with a dispatch in progress no further event is
\* dispatched.
C29_NoDispatchAfterCancel ==
    /\ [](disp.state = "running" => task[disp.task] = "running")
    /\ [][/\ \A s \in Stops :
                ((stopPc[s] = "wait" /\ stopPc'[s] = "close") => disp.state # "running")
           /\ RouteStarts => ~disp.cut]_vars

\* C29 amended: the sync goroutine does not end while a dispatch is in
\* progress, Stop gets past its wait only when none is, and an event is
\* dispatched only while the sync goroutine is running.
C29_HandlerNotInterrupted ==
    /\ [](disp.state = "running" => task[disp.task] = "running")
    /\ [][/\ \A s \in Stops :
                ((stopPc[s] = "wait" /\ stopPc'[s] = "close") => disp.state # "running")
           /\ RouteStarts => (task[disp'.task] = "running" /\ task'[disp'.task] = "running")]_vars

\* C29 witness: Stop cancelled the sync context while a dispatch was in
\* progress; the handlers have all returned, and Stop is still at its wait.
C29_Witness ==
    /\ disp.cut /\ disp.state = "done" /\ Len(disp.calls) = 2
    /\ cancelled[1] /\ ~ctxDone[1]
    /\ stopPc[1] = "wait" /\ task[1] = "running"

\* C30: a join that failed was requested once, no handler was invoked for its
\* event, and events can still be routed as long as the sync goroutine runs;
\* the step that makes the join leaves the goroutine running and changes
\* neither what Run returns nor what the goroutine logged.
C30_FailedJoinNotFatal ==
    /\ []((disp.joins # <<>> /\ disp.joins[1].outcome = "error") =>
            /\ Len(disp.joins) = 1
            /\ disp.calls = <<>> /\ disp.state = "done"
            /\ ((task[disp.task] = "running" /\ ~crashed) =>
                    \A e \in Events : CanDeliver(disp.task, e)))
    /\ [][(RouteStarts /\ disp'.joins # <<>>) =>
            /\ task'[disp'.task] = "running"
            /\ UNCHANGED <<runPc, runResult, taskErr, syncErrLog, crashed>>]_vars

\* C30 witness: the join after an invite failed and the sync goroutine is
\* running.
C30_Witness ==
    /\ disp.evt \in MemberEvents
    /\ Len(disp.joins) = 1 /\ disp.joins[1].outcome = "error"
    /\ task[disp.task] = "running"

\* s is a prefix of t
IsPrefix(s, t) == Len(s) <= Len(t) /\ SubSeq(t, 1, Len(s)) = s

\* C31: the handler list a dispatch ranged over is a prefix of the list at
\* every later moment; a step that changes the list appends one handler at
\* its end and changes nothing else of the Bot, the session, the dispatch or
\* the sends (it is an OnMessage call, and no step of Run, Stop, a send or a
\* dispatch changes the list).
C31_HandlersOnlyGrow ==
    /\ [](IsPrefix(disp.hs, handlers))
    /\ [][handlers' # handlers =>
            /\ \E k \in HandlerKinds : handlers' = Append(handlers, k)
            /\ UNCHANGED <<lifeVars, newVars, disp, lastSend, crashed>>]_vars

\* C31 witness: a handler was registered, an event dispatched to it, a handler
\* of another kind registered after it; a send was made and Stop has returned.
C31_Witness ==
    /\ Len(handlers) = 2 /\ handlers[1] # handlers[2]
    /\ disp.state = "done" /\ Len(disp.hs) = 1 /\ Len(disp.calls) = 1
    /\ lastSend.result = "nil"
    /\ \E s \in Stops : stopPc[s] = "done"

\* sync goroutine n reads b.handlers: its EventMessage route is ranging over
\* the list, or the syncer can call the route at this moment
ReadsHandlers(n) == Dispatching(n) \/ \E e \in MessageEvents : CanDeliver(n, e)

\* C32: as long as every OnMessage call was made before a sync goroutine was
\* started, a step that writes the handler list is taken neither from nor
\* into a state in which a sync goroutine reads the list.
C32_EarlyRegistrationNeverRaces ==
    [][(handlers' # handlers /\ ~registeredLate') =>
            \A n \in Runs : ~ReadsHandlers(n) /\ ~ReadsHandlers(n)']_vars

\* C32 witness: the unsynchronised case.  OnMessage wrote the handler list
\* while the EventMessage route was ranging over it: the route is at a handler
\* of the list it read, and b.handlers is no longer that list.
C32_Witness ==
    /\ registeredLate
    /\ \E n \in Runs : Dispatching(n)
    /\ disp.hs # <<>> /\ handlers # disp.hs

\* C33: the config of a Bot is the Config NewBot was given, with
\* "matrix-bot.db" as the Database when that was empty and every other field
\* as given; no step of any operation changes it once NewBot has returned.
C33_ConfigFixedByNewBot ==
    /\ [](constructed =>
            /\ config.Homeserver = newBotArg.Homeserver
            /\ config.Username = newBotArg.Username
            /\ config.Password = newBotArg.Password
            /\ config.Debug = newBotArg.Debug
            /\ config.Database = IF newBotArg.Database = "" THEN "matrix-bot.db"
                                 ELSE newBotArg.Database)
    /\ [][newBotErr # "none" => config' = config]_vars

\* C33 witness: NewBot defaulted the Database; since then handlers were
\* registered, an event was dispatched, a send was made and Run and Stop have
\* returned.
C33_Witness ==
    /\ constructed /\ newBotArg.Database = "" /\ config.Database = "matrix-bot.db"
    /\ handlers # <<>> /\ disp.state = "done" /\ lastSend.op # "none"
    /\ \E n \in Runs : runResult[n] = "nil"
    /\ \E s \in Stops : stopPc[s] = "done"

\* C34: a step in which a send is made, by the caller or by a handler, with
\* the transmit succeeding or failing, leaves the handler list, b.client,
\* b.crypto, b.cancelSync and the wait counter as they were, and changes
\* nothing of the client or the key store either.
C34_SendsLeaveSessionUnchanged ==
    [][(lastSend' # lastSend \/ Len(disp'.sends) > Len(disp.sends)) =>
            UNCHANGED <<handlers, client, crypto, cancelSync, syncWait, objVars>>]_vars

\* C34 witness: with handlers registered and the session running, the send of
\* a handler succeeded and a SendReply of the caller failed; every handle of
\* the Bot is still set and the wait counter is still 1.
C34_Witness ==
    /\ lastSend.op = "SendReply" /\ lastSend.result = "error"
    /\ disp.sends # <<>> /\ disp.sends[1].outcome = "nil"
    /\ handlers # <<>>
    /\ client # NIL /\ crypto # NIL /\ cancelSync # NIL /\ syncWait = 1

\* C35: a SendReply without user ids hands the client, once, a content whose
\* Mentions is nil (no user list, no room-wide flag), and the call it makes is
\* the call SendHTML makes for the same room, text and html.
C35_ReplyWithoutIdsIsSendHTML ==
    (lastSend.op = "SendReply" /\ lastSend.ids = <<>> /\ lastSend.result # "panic") =>
        /\ Len(lastSend.attempts) = 1
        /\ lastSend.attempts[1].content.Mentions = NoMentions
        /\ lastSend.attempts =
              SendAttempts(lastSend.attempts[1].client, lastSend.room,
                           SendContent("SendHTML", lastSend.text, lastSend.html, <<>>),
                           lastSend.result)

\* C35 witness: a SendReply without user ids, with a text and an html,
\* succeeded.
C35_Witness ==
    /\ lastSend.op = "SendReply" /\ lastSend.ids = <<>>
    /\ lastSend.text # "" /\ lastSend.html # ""
    /\ lastSend.result = "nil"

\* C36: the dispatch of a membership event invokes no message handler and
\* makes no send of one, whether it requested a join that succeeded, one that
\* failed, or none; the dispatch of a message event requests no join.
C36_RoutesDisjointByKind ==
    /\ disp.evt \in MemberEvents =>
            disp.calls = <<>> /\ disp.sends = <<>> /\ disp.state = "done"
    /\ disp.evt \in MessageEvents => disp.joins = <<>>

\* C36 witness: with two handlers registered, an invitation of the bot was
\* routed and its join failed.
C36_Witness ==
    /\ Len(handlers) = 2
    /\ disp.evt \in MemberEvents
    /\ Len(disp.joins) = 1 /\ disp.joins[1].outcome = "error"

\* C37: a message event of the bot's own is dispatched like any other: the
\* route ranges over the handlers registered when it is called and invokes
\* each, in order, with the event's room, sender and body, all of them by the
\* time the dispatch is over; every echo handler invoked has made one send,
\* to the event's room, of "Echo: " + the event's body.
C37_OwnMessagesAnswered ==
    /\ []((disp.evt.type = "message" /\ disp.evt.sender = BotUser) =>
            /\ \A i \in 1..Len(disp.calls) : disp.calls[i] = ExpectedCall(i)
            /\ disp.state = "done" => Len(disp.calls) = Len(disp.hs)
            /\ Len(disp.sends) = Len(disp.calls)
            /\ \A i \in 1..Len(disp.sends) :
                /\ disp.sends[i].room = disp.evt.room
                /\ disp.sends[i].content.Body = "Echo: " \o disp.evt.body)
    /\ [][(RouteStarts /\ disp'.evt.type = "message" /\ disp'.evt.sender = BotUser) =>
            disp'.hs = handlers]_vars

\* C37 witness: another user said "yo" once; the bot's echo of it came back
\* and was echoed, that echo came back and was echoed again.
C37_Witness ==
    /\ disp.evt.sender = BotUser /\ disp.evt.body = "Echo: Echo: yo"
    /\ disp.hs = <<"echo">> /\ disp.state = "done"
    /\ disp.sends[1].outcome = "nil"
    /\ disp.sends[1].content.Body = "Echo: Echo: Echo: yo"

\* C38: a Run call blocked on a sync context that is done can return, whatever
\* its sync goroutine is doing; a Stop call gets past its wait only when the
\* sync goroutine of every Run call that has returned nil has exited.
C38_RunReturnsWithoutWaiting ==
    /\ [](\A n \in Runs :
            (~crashed /\ runPc[n] = "blocked" /\ SyncCtxDone(n)) => ENABLED RunReturn(n))
    /\ [][\A s \in Stops :
            (stopPc[s] = "wait" /\ stopPc'[s] = "close") =>
                \A n \in Runs : runResult[n] = "nil" => task[n] = "exited"]_vars

\* C38 witness: Run has returned nil and its sync goroutine is still running,
\* in the middle of a dispatch with a handler yet to return.
C38_Witness ==
    \E n \in Runs :
        /\ runPc[n] = "done" /\ runResult[n] = "nil"
        /\ task[n] = "running"
        /\ Dispatching(n) /\ Len(disp.calls) < Len(disp.hs)

\* C39: when a handler was registered after the sync goroutine was started,
\* a message event whose dispatch began after that registration (the route
\* ranged over the list the handler is the last of) has, once the dispatch is
\* over, invoked every handler of the list, in order, the late one last.
C39_LateHandlerInvoked ==
    (/\ disp.evt \in MessageEvents
     /\ registeredLate /\ disp.hs = handlers
     /\ disp.state # "running") =>
        /\ Len(disp.calls) = Len(handlers)
        /\ \A i \in 1..Len(disp.calls) : disp.calls[i] = ExpectedCall(i)

====
